---- MODULE Spec2Model ----
(***************************************************************************)
(* Model of vramework/mysql-typed: the filter-to-SQL compiler, the insert  *)
(* builders and the result-cardinality helper of src/database-utils.ts and *)
(* the read facade of src/typed-mysql-pool.ts.                             *)
(*                                                                         *)
(* Representation.  A JavaScript string is a TLA+ string.  A dotted field  *)
(* path is kept as the sequence of its parts, i.e. the value of            *)
(* path.split('.').  SQL text is kept as the sequence of its lexemes, a    *)
(* lexeme being [t, s, n]: kind, spelling and (for a placeholder $n) its   *)
(* number; white space between lexemes is not recorded.  An optional       *)
(* property of an object is [set, v]; an absent string-valued property of  *)
(* a token is the string Undefined.                                        *)
(***************************************************************************)
EXTENDS Integers, Sequences, FiniteSets, TLC

VARIABLES
  fn,     \* the function or method called
  pc,     \* "call", then for the facade "await" and "resume", then "done"
  args,   \* its arguments
  query,  \* what the facade handed to the driver's pool.query, if anything
  rows,   \* what the driver resolved that query with, if anything
  ret     \* its outcome once pc = "done"

vars == <<fn, pc, args, query, rows, ret>>

----------------------------------------------------------------------------
(* JavaScript values *)

Undefined == "<undefined>"

Truthy(s) == s # Undefined /\ s # ""

Some(v) == [set |-> TRUE, v |-> v]

NoNumber == [set |-> FALSE, v |-> 0]

NoString == [set |-> FALSE, v |-> ""]

NoList == [set |-> FALSE, v |-> <<>>]

NoSort == [set |-> FALSE, key |-> <<"">>, order |-> ""]

Last(s) == s[Len(s)]

RECURSIVE Flatten(_)
Flatten(ss) == IF ss = <<>> THEN <<>> ELSE Head(ss) \o Flatten(Tail(ss))

(* String.prototype.trim on the strings the model uses *)
trim(s) ==
  CASE s = "  " -> ""
    [] s = " bob " -> "bob"
    [] OTHER -> s

(* snakeCase of the snake-case package on the identifiers the model uses *)
snakeCase(s) ==
  CASE s = "ownerId" -> "owner_id"
    [] s = "lastSeen" -> "last_seen"
    [] OTHER -> s

(* String.prototype.replace(/s$/, '') on the table names the model uses *)
stripPlural(s) ==
  CASE s = "pets" -> "pet"
    [] s = "users" -> "user"
    [] s = "s" -> ""
    [] OTHER -> s

----------------------------------------------------------------------------
(* SQL text as lexemes *)

Lex(t, s, n) == [t |-> t, s |-> s, n |-> n]

Keyword(s) == Lex("keyword", s, 0)

Grouping(s) == Lex("grouping", s, 0)

Placeholder(n) == Lex("placeholder", "$", n)

(* `${conditionType} ` at the head of a template: nothing but a blank when '' *)
ConditionText(conditionType) ==
  IF conditionType = "" THEN <<>> ELSE <<Keyword(conditionType)>>

(* `${t}"${snakeCase(field)}"` with t = table ? `"${table}".` : '' *)
ColumnText(table, field) ==
  (IF Truthy(table) THEN <<Lex("table", table, 0)>> ELSE <<>>)
    \o <<Lex("column", snakeCase(field), 0)>>

----------------------------------------------------------------------------
(* Filter nodes (FilterExpression of @vramework/generic) *)

Leaf(conditionType, field, operator, value) ==
  [conditionType |-> conditionType, hasExpressions |-> FALSE, expressions |-> <<>>,
   field |-> field, operator |-> operator, value |-> value]

Group(conditionType, expressions) ==
  [conditionType |-> conditionType, hasExpressions |-> TRUE, expressions |-> expressions,
   field |-> <<>>, operator |-> Undefined, value |-> Undefined]

(* Tokens produced by manageFilters *)
Token(grouping, conditionType, operator, table, field, value) ==
  [grouping |-> grouping, conditionType |-> conditionType, operator |-> operator,
   table |-> table, field |-> field, value |-> value]

ConditionToken(conditionType) ==
  Token(Undefined, conditionType, Undefined, Undefined, Undefined, Undefined)

GroupingToken(grouping) ==
  Token(grouping, Undefined, Undefined, Undefined, Undefined, Undefined)

operatorToMysql ==
  [gt |-> ">", gte |-> ">=", lt |-> "<", lte |-> "<=", eq |-> "=", ne |-> "!=",
   on |-> "=", after |-> ">", before |-> "<"]

(* Mutant: the mapping table read without its 'gt' entry *)
hasOperatorButGt(operator) == operator \in DOMAIN operatorToMysql \ { "gt" }

hasOperator(operator) == operator \in DOMAIN operatorToMysql

----------------------------------------------------------------------------
(* manageFilters: src/database-utils.ts 89-109 *)

conditionTokens(expression) ==
  IF Truthy(expression.conditionType)
    THEN <<ConditionToken(expression.conditionType)>>
    ELSE <<>>

(* Mutant: a group's tokens spliced in without its parentheses *)
groupTokensFlattened(inner) == inner

groupTokens(inner) == <<GroupingToken("(")>> \o inner \o <<GroupingToken(")")>>

leafToken(expression) ==
  LET parts == expression.field IN
  IF Len(parts) = 1
    THEN Token(Undefined, Undefined, expression.operator, Undefined, parts[1],
               expression.value)
    ELSE Token(Undefined, Undefined, expression.operator, stripPlural(parts[1]),
               Last(parts), expression.value)

RECURSIVE manageFilters(_), reduceFilters(_, _, _)
reduceFilters(expressions, i, result) ==
  IF i > Len(expressions) THEN result
  ELSE LET expression == expressions[i]
           pushed == result \o conditionTokens(expression)
       IN  reduceFilters(expressions, i + 1,
             IF expression.hasExpressions
               THEN pushed \o groupTokens(manageFilters(expression.expressions))
               ELSE Append(pushed, leafToken(expression)))

manageFilters(expressions) == reduceFilters(expressions, 1, <<>>)

----------------------------------------------------------------------------
(* createFilters: src/database-utils.ts 111-177 *)

DefaultLimit == 1000

DefaultOffset == 0

(* data.limit || 1000 *)
limitOf(data) ==
  IF data.limit.set /\ data.limit.v # 0 THEN data.limit.v ELSE DefaultLimit

(* data.offset || 0 *)
offsetOf(data) ==
  IF data.offset.set /\ data.offset.v # 0 THEN data.offset.v ELSE DefaultOffset

(* lines 115-125 *)
sortOf(data) ==
  IF ~data.sort.set THEN <<>>
  ELSE LET parts == data.sort.key
           table == IF Len(parts) > 1 THEN <<Lex("table", parts[1], 0)>> ELSE <<>>
       IN  <<Keyword("ORDER BY")>> \o table
             \o <<Lex("column", snakeCase(Last(parts)), 0), Keyword(data.sort.order)>>

(* data.freeText && data.freeText.trim() *)
hasFreeText(data) ==
  data.freeText.set /\ data.freeText.v # "" /\ trim(data.freeText.v) # ""

(* line 129 *)
freeTextFilters(data, freeTextFields) ==
  [index \in 1..Len(freeTextFields) |->
     Leaf(IF index = 1 THEN Undefined ELSE "OR", freeTextFields[index],
          "contains", data.freeText.v)]

(* lines 127-137 *)
cleanFiltersOf(data, freeTextFields) ==
  LET given == IF data.filters.set THEN data.filters.v ELSE <<>> IN
  IF hasFreeText(data)
    THEN manageFilters(Append(given,
           Group(IF Len(given) # 0 THEN "AND" ELSE Undefined,
                 freeTextFilters(data, freeTextFields))))
    ELSE manageFilters(given)

(* Mutant: the placeholder numbered before the value is pushed *)
placeholderNumberBeforePush(valueOffset, filterValues) ==
  valueOffset + Len(filterValues) - 1

(* valueOffset + filterValues.length, read after the push *)
placeholderNumber(valueOffset, filterValues) == valueOffset + Len(filterValues)

(* One call of the callback of cleanFilters.map (lines 142-169): the fragment *)
(* it returns (<<>> for undefined) and filterValues after the call.           *)
compileToken(token, valueOffset, filterValues) ==
  LET conditionType ==
        IF token.conditionType = Undefined THEN "" ELSE token.conditionType
      pushed == Append(filterValues, token.value)
      n == placeholderNumber(valueOffset, pushed)
  IN
  IF Truthy(token.grouping)
    THEN [fragment |-> <<Grouping(token.grouping)>>, filterValues |-> filterValues]
  ELSE IF conditionType # "" /\ token.field = Undefined
    THEN [fragment |-> <<Keyword(conditionType)>>, filterValues |-> filterValues]
  ELSE IF token.operator = "includes" \/ token.operator = "excludes"
    THEN [fragment |->
            ConditionText(conditionType)
              \o <<Placeholder(n),
                   Lex("operator", IF token.operator = "includes" THEN "=" ELSE "!=", 0),
                   Keyword("ANY"), Lex("punct", "(", 0)>>
              \o ColumnText(token.table, token.field)
              \o <<Lex("punct", ")", 0)>>,
          filterValues |-> pushed]
  ELSE IF hasOperator(token.operator)
    THEN [fragment |->
            ConditionText(conditionType)
              \o ColumnText(token.table, token.field)
              \o <<Lex("operator", operatorToMysql[token.operator], 0), Placeholder(n)>>,
          filterValues |-> pushed]
  ELSE IF conditionType # ""
    THEN [fragment |-> <<Keyword(conditionType)>>, filterValues |-> filterValues]
  ELSE [fragment |-> <<>>, filterValues |-> filterValues]

RECURSIVE mapFilters(_, _, _, _, _)
mapFilters(cleanFilters, i, valueOffset, fragments, filterValues) ==
  IF i > Len(cleanFilters)
    THEN [filters |-> SelectSeq(fragments, LAMBDA v : v # <<>>),
          filterValues |-> filterValues]
  ELSE LET step == compileToken(cleanFilters[i], valueOffset, filterValues) IN
       mapFilters(cleanFilters, i + 1, valueOffset,
                  Append(fragments, step.fragment), step.filterValues)

createFilters(data, freeTextFields, includeWhere, valueOffset) ==
  LET cleanFilters == cleanFiltersOf(data, freeTextFields)
      mapped == mapFilters(cleanFilters, 1, valueOffset, <<>>, <<>>)
      filter ==
        IF Len(cleanFilters) > 0 /\ Len(mapped.filters) > 0
          THEN (IF includeWhere THEN <<Keyword("WHERE")>> ELSE <<>>)
                 \o Flatten(mapped.filters)
          ELSE <<>>
  IN  [limit |-> limitOf(data), offset |-> offsetOf(data), sort |-> sortOf(data),
       filter |-> filter, filterValues |-> mapped.filterValues]

BulkFilter(filters, sort, limit, offset, freeText) ==
  [filters |-> filters, sort |-> sort, limit |-> limit, offset |-> offset,
   freeText |-> freeText]

(* getFilters: src/database-utils.ts 17-23.  filters is [isArray, array, entries], *)
(* entries being Object.entries of the record, each with its field split on '.'.   *)
getFilters(filters) ==
  IF filters.isArray
    THEN createFilters(BulkFilter(Some(filters.array), NoSort, NoNumber, NoNumber, NoString),
                       <<>>, TRUE, 0)
    ELSE createFilters(
           BulkFilter(
             Some([index \in 1..Len(filters.entries) |->
                     Leaf(IF index # 1 THEN "AND" ELSE Undefined,
                          filters.entries[index].field, "eq",
                          filters.entries[index].value)]),
             NoSort, NoNumber, NoNumber, NoString),
           <<>>, TRUE, 0)

----------------------------------------------------------------------------
(* Inputs of the filter compiler *)

MaxNodes == 3

MaxFreeTextNodes == 1

MaxFreeTextFields == 2

MaxOffset == 1

MaxLimit == 2

LeafPool ==
  { [field |-> <<"owner">>, operator |-> "eq", value |-> "u1"],
    [field |-> <<"pets", "ownerId">>, operator |-> "gt", value |-> "u2"],
    [field |-> <<"tags">>, operator |-> "includes", value |-> "x"],
    [field |-> <<"type">>, operator |-> "like", value |-> "dog"] }

LeafConditionTypes == {Undefined, "AND"}

GroupConditionTypes == {Undefined, "OR"}

TreeLeaves ==
  { Leaf(c, l.field, l.operator, l.value) : c \in LeafConditionTypes, l \in LeafPool }

(* The filter lists with exactly n nodes (leaves and groups, at any depth) *)
RECURSIVE Forests(_), Nodes(_)
Nodes(k) ==
  IF k = 1
    THEN TreeLeaves \cup { Group(c, <<>>) : c \in GroupConditionTypes }
    ELSE { Group(c, f) : c \in GroupConditionTypes, f \in Forests(k - 1) }

Forests(n) ==
  IF n = 0 THEN { <<>> }
  ELSE UNION { { <<first>> \o rest : first \in Nodes(k), rest \in Forests(n - k) } :
               k \in 1..n }

ForestsUpTo(n) == UNION { Forests(k) : k \in 0..n }

AllOperators ==
  { "eq", "ne", "gt", "gte", "lt", "lte", "on", "after", "before",
    "includes", "excludes", "contains", "like", "" }

(* One leaf over every operator, field shape and condition type *)
SingleLeafLists ==
  { <<Leaf(c, f, o, v)>> :
      c \in {Undefined, "", "AND", "OR"}, f \in {<<"lastSeen">>, <<"users", "name">>},
      o \in AllOperators, v \in {"a", "b"} }

FreeTexts == { "", "  ", "bob", " bob " }

FreeTextColumns == { <<"name">>, <<"pets", "notes">> }

SeqsUpTo(S, n) == UNION { [1..k -> S] : k \in 0..n }

OptionalNumbers == { NoNumber } \cup { Some(v) : v \in 0..MaxLimit }

Sorts ==
  { NoSort } \cup
  { [set |-> TRUE, key |-> k, order |-> o] :
      k \in {<<"lastSeen">>, <<"pets", "ownerId">>}, o \in {"ASC", "DESC"} }

FilterArgs(data, freeTextFields, includeWhere, valueOffset) ==
  [data |-> data, freeTextFields |-> freeTextFields, includeWhere |-> includeWhere,
   valueOffset |-> valueOffset]

PlainInputs ==
  { FilterArgs(BulkFilter(Some(f), NoSort, NoNumber, NoNumber, NoString), <<>>, TRUE, n) :
      f \in ForestsUpTo(MaxNodes) \cup SingleLeafLists, n \in 0..MaxOffset }

FreeTextInputs ==
  { FilterArgs(BulkFilter(f, NoSort, NoNumber, NoNumber, Some(t)), c, w, n) :
      f \in { NoList } \cup { Some(g) : g \in ForestsUpTo(MaxFreeTextNodes) },
      t \in FreeTexts, c \in SeqsUpTo(FreeTextColumns, MaxFreeTextFields),
      w \in BOOLEAN, n \in 0..MaxOffset }

PagingInputs ==
  { FilterArgs(BulkFilter(NoList, s, l, o, NoString), <<>>, TRUE, 0) :
      s \in Sorts, l \in OptionalNumbers, o \in OptionalNumbers }

FilterInputs == PlainInputs \cup FreeTextInputs \cup PagingInputs

----------------------------------------------------------------------------
(* The filter compiler as a state machine: a call, then its result *)

NoResult == [kind |-> "none"]

InitFilters ==
  /\ fn \in {"createFilters", "manageFilters"}
  /\ pc = "call"
  /\ args \in FilterInputs
  /\ query = NoResult /\ rows = NoList
  /\ ret = NoResult

CallCreateFilters ==
  /\ fn = "createFilters" /\ pc = "call"
  /\ ret' = createFilters(args.data, args.freeTextFields, args.includeWhere,
                          args.valueOffset)
  /\ pc' = "done"
  /\ UNCHANGED <<fn, args, query, rows>>

CallManageFilters ==
  /\ fn = "manageFilters" /\ pc = "call" /\ args.data.filters.set
  /\ ret' = manageFilters(args.data.filters.v)
  /\ pc' = "done"
  /\ UNCHANGED <<fn, args, query, rows>>

NextFilters == CallCreateFilters \/ CallManageFilters

SpecFilters == InitFilters /\ [][NextFilters]_vars

----------------------------------------------------------------------------
(* Vocabulary of the properties of the filter compiler *)

Done(name) == fn = name /\ pc = "done"

(* The operators that bind a parameter: the mapping table and includes/excludes *)
ParameterOperators ==
  { "eq", "ne", "gt", "gte", "lt", "lte", "on", "after", "before",
    "includes", "excludes" }

(* The operator tags of the data model *)
OperatorTags == ParameterOperators \cup { "contains" }

(* The leaves of a filter list, depth first, left to right *)
RECURSIVE LeavesOf(_)
LeavesOf(expressions) ==
  IF expressions = <<>> THEN <<>>
  ELSE LET first == Head(expressions) IN
       (IF first.hasExpressions THEN LeavesOf(first.expressions) ELSE <<first>>)
         \o LeavesOf(Tail(expressions))

ParameterLeaves(expressions) ==
  SelectSeq(LeavesOf(expressions), LAMBDA l : l.operator \in ParameterOperators)

GivenFilters(data) == IF data.filters.set THEN data.filters.v ELSE <<>>

RECURSIVE PositionsOf(_, _, _)
PositionsOf(text, kind, i) ==
  IF i > Len(text) THEN <<>>
  ELSE (IF text[i].t = kind THEN <<i>> ELSE <<>>) \o PositionsOf(text, kind, i + 1)

(* The column a placeholder at position p of a text is compared with *)
ColumnOf(text, p) ==
  IF p + 2 <= Len(text) /\ text[p + 2] = Keyword("ANY")
    THEN (IF text[p + 4].t = "column" THEN text[p + 4].s ELSE text[p + 5].s)
    ELSE text[p - 2].s

(* C1: the placeholders of the filter text are as many as filterValues, the  *)
(* k-th from the left is numbered valueOffset + k, filterValues[k] is the    *)
(* value of the leaf whose comparison holds that placeholder, and            *)
(* filterValues is what valueOffset 0 gives.                                 *)
C1_PlaceholdersAlignWithValues ==
  Done("createFilters") =>
    LET at == PositionsOf(ret.filter, "placeholder", 1)
        leaves == ParameterLeaves(GivenFilters(args.data))
    IN  /\ Len(at) = Len(ret.filterValues)
        /\ Len(at) = Len(leaves)
        /\ \A k \in 1..Len(at) :
             /\ ret.filter[at[k]].n = args.valueOffset + k
             /\ ret.filterValues[k] = leaves[k].value
             /\ ColumnOf(ret.filter, at[k]) = snakeCase(Last(leaves[k].field))
        /\ ret.filterValues =
             createFilters(args.data, args.freeTextFields, args.includeWhere, 0).filterValues

C1_Witness ==
  /\ Done("createFilters")
  /\ args.valueOffset > 0
  /\ Len(ret.filterValues) >= 2
  /\ \E i \in 1..Len(args.data.filters.v) : args.data.filters.v[i].hasExpressions
  /\ \E i \in 1..Len(ret.filter) :
       ret.filter[i] = Placeholder(args.valueOffset + 2)

(* C2: without free text, filterValues has one element for each leaf, at any *)
(* depth, whose operator is in the mapping table or is includes/excludes,    *)
(* and none for groups, parentheses and condition types.                     *)
C2_ParameterCountIsLeafCount ==
  (Done("createFilters") /\ ~args.data.freeText.set) =>
    Len(ret.filterValues) =
      Len(SelectSeq(LeavesOf(GivenFilters(args.data)),
                    LAMBDA l : l.operator \in ParameterOperators))

C2_Witness ==
  /\ Done("createFilters") /\ ~args.data.freeText.set
  /\ Len(ret.filterValues) = 2
  /\ Len(LeavesOf(args.data.filters.v)) = 2
  /\ \E i \in 1..Len(args.data.filters.v) :
       /\ args.data.filters.v[i].hasExpressions
       /\ Truthy(args.data.filters.v[i].conditionType)
       /\ Len(args.data.filters.v[i].expressions) = 2

(* A filter list as manageFilters is to render it: each node with its        *)
(* condition type (none when falsy), a leaf with its operator, the last part *)
(* of its field and its value, a group with its children.                    *)
ShapeLeaf(conditionType, operator, field, value) ==
  [conditionType |-> conditionType, isGroup |-> FALSE, children |-> <<>>,
   operator |-> operator, field |-> field, value |-> value]

ShapeGroup(conditionType, children) ==
  [conditionType |-> conditionType, isGroup |-> TRUE, children |-> children,
   operator |-> Undefined, field |-> Undefined, value |-> Undefined]

RECURSIVE ShapeOf(_)
ShapeOf(expressions) ==
  [i \in 1..Len(expressions) |->
     LET e == expressions[i]
         c == IF Truthy(e.conditionType) THEN e.conditionType ELSE Undefined
     IN  IF e.hasExpressions
           THEN ShapeGroup(c, ShapeOf(e.expressions))
           ELSE ShapeLeaf(c, e.operator, Last(e.field), e.value)]

ParseFailed == [ok |-> FALSE, nodes |-> <<>>, next |-> 0]

(* Reads a token sequence back from position i as a list of siblings: each   *)
(* sibling is an optional condition-type token, then either a leaf token or  *)
(* "(", a list of siblings and ")".  Stops at the end or at an unmatched ")" *)
RECURSIVE ParseSiblings(_, _, _)
ParseSiblings(tokens, i, acc) ==
  IF i > Len(tokens) \/ tokens[i].grouping = ")"
    THEN [ok |-> TRUE, nodes |-> acc, next |-> i]
  ELSE
    LET isCondition == tokens[i].grouping = Undefined /\ tokens[i].field = Undefined
        c == IF isCondition THEN tokens[i].conditionType ELSE Undefined
        j == IF isCondition THEN i + 1 ELSE i
    IN  IF j > Len(tokens) THEN ParseFailed
        ELSE IF tokens[j].grouping = "(" THEN
          LET inner == ParseSiblings(tokens, j + 1, <<>>) IN
          IF inner.ok /\ inner.next <= Len(tokens)
            THEN ParseSiblings(tokens, inner.next + 1,
                               Append(acc, ShapeGroup(c, inner.nodes)))
            ELSE ParseFailed
        ELSE IF /\ tokens[j].grouping = Undefined
                /\ tokens[j].field # Undefined
                /\ tokens[j].conditionType = Undefined
          THEN ParseSiblings(tokens, j + 1,
                 Append(acc, ShapeLeaf(c, tokens[j].operator, tokens[j].field,
                                       tokens[j].value)))
        ELSE ParseFailed

RECURSIVE Depth(_, _)
Depth(tokens, n) ==
  IF n = 0 THEN 0
  ELSE Depth(tokens, n - 1)
         + (IF tokens[n].grouping = "(" THEN 1
            ELSE IF tokens[n].grouping = ")" THEN -1 ELSE 0)

(* C10: the tokens of manageFilters are the depth-first, left-to-right walk  *)
(* of the filter list: read back, they give the same nodes in the same order *)
(* and nesting, each group between one "(" and its ")", each condition type  *)
(* right before its leaf or before its group's "("; parentheses never close  *)
(* below zero in a prefix and balance at the end.                            *)
C10_TokensAreDepthFirstWalk ==
  Done("manageFilters") =>
    LET parsed == ParseSiblings(ret, 1, <<>>) IN
    /\ parsed.ok
    /\ parsed.next = Len(ret) + 1
    /\ parsed.nodes = ShapeOf(args.data.filters.v)
    /\ \A n \in 0..Len(ret) : Depth(ret, n) >= 0
    /\ Depth(ret, Len(ret)) = 0

C10_Witness ==
  /\ Done("manageFilters")
  /\ \E i \in 1..Len(ret) - 4 :
       /\ ret[i] = ConditionToken("OR")
       /\ ret[i + 1] = GroupingToken("(")
       /\ ret[i + 2].operator = "gt" /\ ret[i + 2].table = "pet"
       /\ ret[i + 3] = GroupingToken(")")
       /\ ret[i + 4] = ConditionToken("AND")

(* The filter list with every leaf whose operator is no operator tag removed *)
RECURSIVE WithoutUnrecognized(_)
WithoutUnrecognized(expressions) ==
  IF expressions = <<>> THEN <<>>
  ELSE LET first == Head(expressions)
           rest == WithoutUnrecognized(Tail(expressions))
       IN  IF first.hasExpressions
             THEN <<Group(first.conditionType, WithoutUnrecognized(first.expressions))>>
                    \o rest
           ELSE IF first.operator \in OperatorTags THEN <<first>> \o rest
           ELSE rest

(* C9: a leaf whose operator is not recognized is skipped as a whole: the    *)
(* filter text and filterValues are those of the list without that leaf, so  *)
(* neither its comparison nor its own AND/OR keyword is emitted.             *)
C9_UnrecognizedLeafSkippedWhole ==
  (Done("createFilters") /\ args.data.filters.set /\ ~args.data.freeText.set) =>
    LET without ==
          createFilters([args.data EXCEPT !.filters.v = WithoutUnrecognized(@)],
                        args.freeTextFields, args.includeWhere, args.valueOffset)
    IN  /\ ret.filter = without.filter
        /\ ret.filterValues = without.filterValues

(* C3: free text that is not blank, no explicit filters and m >= 1 columns   *)
(* give one parenthesized group of m comparisons, one per column in order,   *)
(* joined by OR, and filterValues of m elements, each the free text.         *)
C3_FreeTextGivesOneValuePerColumn ==
  ( /\ Done("createFilters")
    /\ hasFreeText(args.data)
    /\ GivenFilters(args.data) = <<>>
    /\ Len(args.freeTextFields) >= 1 ) =>
    LET m == Len(args.freeTextFields)
        columns == PositionsOf(ret.filter, "column", 1)
        groupings == PositionsOf(ret.filter, "grouping", 1)
    IN  /\ ret.filterValues = [k \in 1..m |-> args.data.freeText.v]
        /\ Len(columns) = m
        /\ \A k \in 1..m :
             ret.filter[columns[k]].s = snakeCase(Last(args.freeTextFields[k]))
        /\ Len(groupings) = 2
        /\ Len(SelectSeq(ret.filter, LAMBDA l : l = Keyword("OR"))) = m - 1

(* C8: the limit returned is the limit supplied, 0 included, and 1000 only   *)
(* when none was supplied; the offset returned is the offset supplied, and 0 *)
(* when none was supplied.                                                   *)
C8_LimitAndOffsetAsSupplied ==
  Done("createFilters") =>
    /\ ret.limit = (IF args.data.limit.set THEN args.data.limit.v ELSE 1000)
    /\ ret.offset = (IF args.data.offset.set THEN args.data.offset.v ELSE 0)

----------------------------------------------------------------------------
(* Insert builders: src/database-utils.ts 26-68.  An object is the sequence  *)
(* of its entries [key, value] in Object.keys order; a value is [type, text, *)
(* items], text being its spelling and items the elements of an array.       *)

JsValue(type, text, items) == [type |-> type, text |-> text, items |-> items]

JsString(text) == JsValue("string", text, <<>>)

JsNumber(text) == JsValue("number", text, <<>>)

JsBoolean(text) == JsValue("boolean", text, <<>>)

JsArray(items) == JsValue("array", "", items)

JsNull == JsValue("null", "null", <<>>)

JsUndefined == JsValue("undefined", "", <<>>)

Entry(key, value) == [key |-> key, value |-> value]

(* Array.prototype.join on strings *)
RECURSIVE join(_, _)
join(items, separator) ==
  IF items = <<>> THEN ""
  ELSE IF Len(items) = 1 THEN items[1]
  ELSE items[1] \o separator \o join(Tail(items), separator)

(* JSON.stringify of a value of the model *)
jsonStringify(value) ==
  CASE value.type = "undefined" -> JsUndefined
    [] value.type = "string" -> JsString("\"" \o value.text \o "\"")
    [] value.type = "array" ->
         JsString("[" \o join([i \in 1..Len(value.items) |->
                                 "\"" \o value.items[i] \o "\""], ",") \o "]")
    [] OTHER -> JsString(value.text)

(* lines 56-68 *)
transformValue(k, value) ==
  IF value.type = "number" \/ value.type = "string" \/ value.type = "null"
    THEN value
  ELSE IF value.type = "array" /\ k = "tags"
    THEN JsString("{ " \o join(value.items, ",") \o "}")
  ELSE jsonStringify(value)

transformValues(from) ==
  [i \in 1..Len(from) |-> Entry(from[i].key, transformValue(from[i].key, from[i].value))]

(* `"${names.join('","')}"`: a quote, the names with '","' between, a quote *)
RECURSIVE separated(_, _)
separated(lexemes, separator) ==
  IF Len(lexemes) <= 1 THEN lexemes
  ELSE <<lexemes[1], separator>> \o separated(Tail(lexemes), separator)

quotedList(names) ==
  <<Lex("quote", "\"", 0)>>
    \o separated([i \in 1..Len(names) |-> Lex("column", names[i], 0)],
                 Lex("separator", "\",\"", 0))
    \o <<Lex("quote", "\"", 0)>>

Comma == Lex("separator", ",", 0)

(* lines 45-53 *)
(* Mutant: entries with undefined values kept *)
setKeysUnfiltered(data) == data

setKeys(data) == SelectSeq(data, LAMBDA e : e.value.type # "undefined")

createInsert(data, offset) ==
  LET keys == setKeys(data) IN
  [columns |-> quotedList([i \in 1..Len(keys) |-> snakeCase(keys[i].key)]),
   placeholders |-> separated([i \in 1..Len(keys) |-> Lex("placeholder", "?", 0)], Comma),
   values |-> [i \in 1..Len(keys) |-> keys[i].value]]

(* lines 34-38: the keys already seen, then the new keys of this row *)
RECURSIVE pushNewKeys(_, _)
pushNewKeys(keys, row) ==
  IF row = <<>> THEN keys
  ELSE pushNewKeys(
         IF \E i \in 1..Len(keys) : keys[i] = row[1].key
           THEN keys ELSE Append(keys, row[1].key),
         Tail(row))

(* line 39: one placeholder for every key seen so far, numbered from i on *)
rowTuple(keys, i) ==
  <<Lex("punct", "(", 0)>>
    \o separated([j \in 1..Len(keys) |-> Placeholder(i + j - 1)], Comma)
    \o <<Lex("punct", ")", 0)>>

(* line 40: the values of the row's own keys, in the row's own order *)
rowValues(data) == [j \in 1..Len(data) |-> data[j].value]

(* lines 32-41: bulk.map, threading i, keys and values through the rows *)
RECURSIVE mapBulk(_, _, _, _, _, _)
mapBulk(bulk, r, i, keys, values, realValues) ==
  IF r > Len(bulk)
    THEN [keys |-> keys, values |-> values, realValues |-> realValues]
  ELSE LET data == transformValues(bulk[r])
           seen == pushNewKeys(keys, data)
       IN  mapBulk(bulk, r + 1, i + Len(seen), seen,
                   Append(values, rowTuple(seen, i)),
                   Append(realValues, rowValues(data)))

(* lines 26-43; bulk is not empty (reduce without an initial value) *)
createBulkInsert(bulk) ==
  LET mapped == mapBulk(bulk, 1, 1, <<>>, <<>>, <<>>) IN
  [columns |-> quotedList([j \in 1..Len(mapped.keys) |-> snakeCase(mapped.keys[j])]),
   placeholders |-> Flatten(separated(mapped.values, <<Comma>>)),
   values |-> Flatten(mapped.realValues)]

----------------------------------------------------------------------------
(* The insert builders as a state machine *)

MaxColumns == 3

MaxBulkRows == 2

InsertKeys == { "name", "type", "ownerId", "tags" }

InsertValues == { JsString("Bob"), JsNumber("7"), JsUndefined, JsArray(<<"a", "b">>) }

BulkKeys == { "name", "ownerId" }

BulkValues == { JsString("Bob"), JsNumber("7"), JsBoolean("true") }

(* The objects with at most n entries: distinct keys, in any order *)
Objects(keys, values, n) ==
  { o \in SeqsUpTo([key : keys, value : values], n) :
      \A i, j \in 1..Len(o) : o[i].key = o[j].key => i = j }

InsertInputs ==
  { [data |-> d, offset |-> n] :
      d \in Objects(InsertKeys, InsertValues, MaxColumns), n \in 0..MaxOffset }

BulkInputs ==
  { [bulk |-> b] :
      b \in SeqsUpTo(Objects(BulkKeys, BulkValues, MaxColumns), MaxBulkRows) \ { <<>> } }

InitInsert ==
  /\ \/ fn = "createInsert" /\ args \in InsertInputs
     \/ fn = "createBulkInsert" /\ args \in BulkInputs
  /\ pc = "call"
  /\ query = NoResult /\ rows = NoList
  /\ ret = NoResult

CallCreateInsert ==
  /\ fn = "createInsert" /\ pc = "call"
  /\ ret' = createInsert(args.data, args.offset)
  /\ pc' = "done"
  /\ UNCHANGED <<fn, args, query, rows>>

CallCreateBulkInsert ==
  /\ fn = "createBulkInsert" /\ pc = "call"
  /\ ret' = createBulkInsert(args.bulk)
  /\ pc' = "done"
  /\ UNCHANGED <<fn, args, query, rows>>

NextInsert == CallCreateInsert \/ CallCreateBulkInsert

SpecInsert == InitInsert /\ [][NextInsert]_vars

LexemesOf(text, kind) == SelectSeq(text, LAMBDA l : l.t = kind)

(* C7: createInsert leaves every entry whose value is undefined out of the   *)
(* column list and of the values; the columns, the placeholders and the      *)
(* values are as many as the entries left and follow their order.            *)
C7_InsertDropsUnsetKeepsOrder ==
  Done("createInsert") =>
    LET kept == SelectSeq(args.data, LAMBDA e : e.value # JsUndefined)
        columns == LexemesOf(ret.columns, "column")
    IN  /\ Len(columns) = Len(kept)
        /\ Len(LexemesOf(ret.placeholders, "placeholder")) = Len(kept)
        /\ Len(ret.values) = Len(kept)
        /\ \A i \in 1..Len(kept) :
             /\ columns[i].s = snakeCase(kept[i].key)
             /\ ret.values[i] = kept[i].value

C7_Witness ==
  /\ Done("createInsert")
  /\ Len(args.data) = 3
  /\ args.data[1] = Entry("ownerId", JsString("Bob"))
  /\ args.data[2].value = JsUndefined
  /\ Len(ret.values) = 2
  /\ LexemesOf(ret.columns, "column")[1].s = "owner_id"

(* The placeholder numbers of a VALUES text, tuple by tuple *)
RECURSIVE TuplesOf(_, _, _)
TuplesOf(text, i, acc) ==
  IF i > Len(text) THEN acc
  ELSE TuplesOf(text, i + 1,
         IF text[i].s = "(" THEN Append(acc, <<>>)
         ELSE IF text[i].t = "placeholder"
           THEN [acc EXCEPT ![Len(acc)] = Append(@, text[i].n)]
         ELSE acc)

(* The value an object holds for a column, undefined when it has none *)
ValueFor(data, column) ==
  IF \E i \in 1..Len(data) : snakeCase(data[i].key) = column
    THEN data[CHOOSE i \in 1..Len(data) : snakeCase(data[i].key) = column].value
    ELSE JsUndefined

(* C6: for rows of any shapes, createBulkInsert emits as many placeholders   *)
(* as values, and the j-th placeholder of a row's tuple binds that row's     *)
(* value for the j-th column of the column list returned.                    *)
C6_BulkPlaceholdersAlignWithValues ==
  Done("createBulkInsert") =>
    LET columns == LexemesOf(ret.columns, "column")
        tuples == TuplesOf(ret.placeholders, 1, <<>>)
    IN  /\ Len(LexemesOf(ret.placeholders, "placeholder")) = Len(ret.values)
        /\ Len(tuples) = Len(args.bulk)
        /\ \A r \in 1..Len(tuples) : \A j \in 1..Len(tuples[r]) :
             /\ tuples[r][j] <= Len(ret.values)
             /\ ret.values[tuples[r][j]] =
                  ValueFor(transformValues(args.bulk[r]), columns[j].s)

----------------------------------------------------------------------------
(* Result cardinality helper and read facade:                                *)
(* src/database-utils.ts 70-75, src/typed-mysql-pool.ts 25-107.              *)
(* An outcome is a returned row, a returned list of rows or a raised value.  *)

ReturnRow(row) == [kind |-> "return", isList |-> FALSE, value |-> row]

ReturnRows(result) == [kind |-> "return", isList |-> TRUE, value |-> result]

Throw(error) == [kind |-> "throw", isList |-> FALSE, value |-> error]

(* Mutant: only an empty result raises *)
exactlyOneResultAtLeastOne(result, Err) ==
  IF Len(result) < 1 THEN Throw(Err) ELSE ReturnRow(result[1])

(* database-utils.ts 70-75 *)
exactlyOneResult(result, Err) ==
  IF Len(result) # 1 THEN Throw(Err) ELSE ReturnRow(result[1])

(* typed-mysql-pool.ts 101-107; alias is Undefined when not passed *)
selectFields(table, fields, alias) ==
  separated([i \in 1..Len(fields) |->
               Lex("column", "\"" \o (IF alias = Undefined THEN "undefined" ELSE alias)
                               \o "\"." \o snakeCase(fields[i]), 0)],
            Comma)

(* typed-mysql-pool.ts 28-29: the statement and values handed to this.query *)
crudGetAllQuery(table, filters) ==
  LET compiled == getFilters(filters) IN
  [statement |-> <<Keyword("SELECT"), Lex("punct", "*", 0), Keyword("FROM"),
                   Lex("table", table, 0)>> \o compiled.filter,
   values |-> compiled.filterValues]

(* typed-mysql-pool.ts 39-44 *)
crudGetQuery(table, fields, filters) ==
  LET compiled == getFilters(filters) IN
  [statement |-> <<Keyword("SELECT")>> \o selectFields(table, fields, Undefined)
                   \o <<Keyword("FROM"), Lex("table", table, 0)>> \o compiled.filter,
   values |-> compiled.filterValues]

(* Mutant: the error value ignored *)
crudGetAllResultAlwaysList(result, notSingleError) == ReturnRows(result)

(* typed-mysql-pool.ts 30-33 *)
crudGetAllResult(result, notSingleError) ==
  IF Truthy(notSingleError)
    THEN exactlyOneResult(result, notSingleError)
    ELSE ReturnRows(result)

(* typed-mysql-pool.ts 45-48 *)
crudGetResult(result, notSingleError) ==
  IF Truthy(notSingleError)
    THEN exactlyOneResult(result, notSingleError)
    ELSE ReturnRows(result)

(* typed-mysql-pool.ts 56-57 *)
oneResult(result, error) == exactlyOneResult(result, error)

(* typed-mysql-pool.ts 64-65 *)
manyResult(result) == ReturnRows(result)

MaxRows == 2

Rows == { "r1", "r2" }

RowLists == SeqsUpTo(Rows, MaxRows)

Errors == { "PetNotFound", "NotFound" }

DriverError == "ECONNREFUSED"

RecordFilters ==
  { [isArray |-> FALSE, array |-> <<>>, entries |-> e] :
      e \in { <<>>, <<[field |-> <<"id">>, value |-> "uuid"]>>,
              <<[field |-> <<"id">>, value |-> "uuid"],
                [field |-> <<"ownerId">>, value |-> "u1"]>> } }

ArrayFilters ==
  { [isArray |-> TRUE, array |-> f, entries |-> <<>>] : f \in ForestsUpTo(1) }

PoolFilters == RecordFilters \cup ArrayFilters

Statements == { <<Keyword("SELECT * FROM pet_store")>> }

InitPool ==
  /\ \/ /\ fn = "exactlyOneResult"
        /\ args \in [result : RowLists, Err : Errors]
     \/ /\ fn = "crudGetAll"
        /\ args \in [table : {"pet"}, filters : PoolFilters,
                     notSingleError : Errors \cup {Undefined}]
     \/ /\ fn = "crudGet"
        /\ args \in [table : {"pet"}, fields : {<<"owner", "lastSeen">>},
                     filters : PoolFilters, notSingleError : Errors \cup {Undefined}]
     \/ /\ fn = "one"
        /\ args \in [statement : Statements, values : {<<>>, <<"name">>}, error : Errors]
     \/ /\ fn = "many"
        /\ args \in [statement : Statements, values : {<<>>, <<"name">>}]
  /\ pc = "call"
  /\ query = NoResult /\ rows = NoList
  /\ ret = NoResult

CallExactlyOneResult ==
  /\ fn = "exactlyOneResult" /\ pc = "call"
  /\ ret' = exactlyOneResult(args.result, args.Err)
  /\ pc' = "done"
  /\ UNCHANGED <<fn, args, query, rows>>

(* Up to `await this.query(...)`: the query goes to the driver *)
CrudGetAllCall ==
  /\ fn = "crudGetAll" /\ pc = "call"
  /\ query' = crudGetAllQuery(args.table, args.filters)
  /\ pc' = "await"
  /\ UNCHANGED <<fn, args, rows, ret>>

CrudGetCall ==
  /\ fn = "crudGet" /\ pc = "call"
  /\ query' = crudGetQuery(args.table, args.fields, args.filters)
  /\ pc' = "await"
  /\ UNCHANGED <<fn, args, rows, ret>>

OneCall ==
  /\ fn = "one" /\ pc = "call"
  /\ query' = [statement |-> args.statement, values |-> args.values]
  /\ pc' = "await"
  /\ UNCHANGED <<fn, args, rows, ret>>

ManyCall ==
  /\ fn = "many" /\ pc = "call"
  /\ query' = [statement |-> args.statement, values |-> args.values]
  /\ pc' = "await"
  /\ UNCHANGED <<fn, args, rows, ret>>

(* pool.query resolves with some rows (typed-mysql-pool.ts 73-74) *)
DriverResolves ==
  /\ pc = "await"
  /\ \E result \in RowLists : rows' = Some(result)
  /\ pc' = "resume"
  /\ UNCHANGED <<fn, args, query, ret>>

(* pool.query rejects: the awaiting method rejects with the same error *)
DriverRejects ==
  /\ pc = "await"
  /\ ret' = Throw(DriverError)
  /\ pc' = "done"
  /\ UNCHANGED <<fn, args, query, rows>>

CrudGetAllReturn ==
  /\ fn = "crudGetAll" /\ pc = "resume"
  /\ ret' = crudGetAllResult(rows.v, args.notSingleError)
  /\ pc' = "done"
  /\ UNCHANGED <<fn, args, query, rows>>

CrudGetReturn ==
  /\ fn = "crudGet" /\ pc = "resume"
  /\ ret' = crudGetResult(rows.v, args.notSingleError)
  /\ pc' = "done"
  /\ UNCHANGED <<fn, args, query, rows>>

OneReturn ==
  /\ fn = "one" /\ pc = "resume"
  /\ ret' = oneResult(rows.v, args.error)
  /\ pc' = "done"
  /\ UNCHANGED <<fn, args, query, rows>>

ManyReturn ==
  /\ fn = "many" /\ pc = "resume"
  /\ ret' = manyResult(rows.v)
  /\ pc' = "done"
  /\ UNCHANGED <<fn, args, query, rows>>

NextPool ==
  \/ CallExactlyOneResult
  \/ CrudGetAllCall \/ CrudGetCall \/ OneCall \/ ManyCall
  \/ DriverResolves \/ DriverRejects
  \/ CrudGetAllReturn \/ CrudGetReturn \/ OneReturn \/ ManyReturn

SpecPool == InitPool /\ [][NextPool]_vars

(* C4: exactlyOneResult returns the single row exactly when the rows are one *)
(* and otherwise raises the error value it was given, unchanged.             *)
C4_ExactlyOneOrCallerError ==
  Done("exactlyOneResult") =>
    /\ (ret.kind = "return") <=> (Len(args.result) = 1)
    /\ Len(args.result) = 1 => ret = ReturnRow(args.result[1])
    /\ Len(args.result) # 1 => ret = Throw(args.Err)

C4_Witness ==
  /\ Done("exactlyOneResult")
  /\ Len(args.result) = 2
  /\ ret = Throw("PetNotFound")

(* C5: once the driver has returned rows R, crudGetAll and crudGet called    *)
(* with an error value E return R[1] when R has one row and raise E when it  *)
(* has none or several, and called without one return R as a list; one does  *)
(* as the former with its error, many as the latter.                         *)
C5_FacadeCardinality ==
  (pc = "done" /\ rows.set /\ fn \in {"crudGetAll", "crudGet", "one", "many"}) =>
    LET E == CASE fn = "one" -> args.error
               [] fn = "many" -> Undefined
               [] OTHER -> args.notSingleError
    IN  IF E = Undefined
          THEN ret.kind = "return" /\ ret.isList /\ ret.value = rows.v
        ELSE IF Len(rows.v) = 1
          THEN ret.kind = "return" /\ ~ret.isList /\ ret.value = rows.v[1]
        ELSE ret.kind = "throw" /\ ret.value = E

C5_Witness ==
  /\ pc = "done" /\ fn = "crudGet" /\ rows.set
  /\ args.notSingleError = "PetNotFound"
  /\ Len(rows.v) = 2
  /\ ret = Throw("PetNotFound")
  /\ query.values = <<"uuid">>

====
